---- MODULE Spec2Model ----
(***************************************************************************)
(* Subscription service: the Subscription entity and its validation        *)
(* (internal/subscriptions/model.go and its second variant), the cost      *)
(* calculation over a date window, and the SubscriptionRepository          *)
(* operations over the subscriptions table (two variants).                 *)
(***************************************************************************)
EXTENDS Integers, Sequences, FiniteSets, TLC

VARIABLES
    variant,    \* which model file is built: "model.go" or "part_001"
    args,       \* the arguments of NewSubscription / the fields assigned directly
    newOut,     \* what NewSubscription(args) returned, or None
    valOut,     \* what Validate() returned on the instance with the fields of args
    csub,       \* the subscription CalculateCostForPeriod is called on
    window,     \* the queried window [from, to]
    costOut,    \* what CalculateCostForPeriod returned, or None
    activeOut,  \* what IsActiveDuringPeriod returned, or None
    repo,       \* which repository file is built: "repository.go" or "handler.go"
    table,      \* the subscriptions table: id -> row
    call,       \* the repository call that has returned: its arguments and results
    fresh,      \* id -> the fields passed to Create, until the id is updated or deleted
    qry,        \* the statement to build: variant, operation, filters, iteration order
    stmt,       \* the statement built (text and positional arguments), or None
    hreq,       \* the HTTP request being served, or None
    resp,       \* the response written to it, or None
    procs,      \* the concurrent callers of the repository: position and results
    mainPc,     \* where main is
    srvPc,      \* where the goroutine running the HTTP server is
    shutdown,   \* the contents of the shutdown channel
    arrived,    \* the number of termination signals that arrived
    sig,        \* the value main received from the channel, or None
    startErr,   \* the error Server.Start returned to the goroutine, or None
    calls       \* the number of calls of Server.Shutdown

vars == <<variant, args, newOut, valOut, csub, window, costOut, activeOut,
          repo, table, call, fresh, qry, stmt, hreq, resp, procs,
          mainPc, srvPc, shutdown, arrived, sig, startErr, calls>>

validationVars == <<variant, args, newOut, valOut>>
costVars == <<csub, window, costOut, activeOut>>
repoVars == <<repo, table, call, fresh>>
queryVars == <<qry, stmt>>
handlerVars == <<hreq, resp>>
concVars == <<procs>>
mainVars == <<mainPc, srvPc, shutdown, arrived, sig, startErr, calls>>
restVars == <<queryVars, handlerVars, concVars, mainVars>>

\* A Go pointer or an optional result: None is nil / not yet returned
None == <<>>
Some(x) == <<x>>
Nil == "nil"

(***************************************************************************)
(* Strings.  A Go string is a sequence of characters; len() counts its     *)
(* bytes.  "sp" is an ASCII space, "a" an ASCII letter (1 byte each) and    *)
(* "ya" a Cyrillic letter (2 bytes in UTF-8).                               *)
(***************************************************************************)
Chars == {"sp", "a", "ya"}

Width(c) == IF c = "ya" THEN 2 ELSE 1

IsSpace(c) == c = "sp"

\* Go's builtin len(string): the number of bytes, one per character and one
\* more per two-byte character
ByteLen(s) == Len(s) + Cardinality({i \in 1..Len(s) : Width(s[i]) = 2})

\* strings.TrimSpace: the string without its leading and trailing white space
TrimSpace(s) ==
    LET keep == {i \in 1..Len(s) : ~IsSpace(s[i])}
    IN  IF keep = {} THEN <<>>
        ELSE LET lo == CHOOSE i \in keep : \A j \in keep : i <= j
                 hi == CHOOSE i \in keep : \A j \in keep : j <= i
             IN  SubSeq(s, lo, hi)

(***************************************************************************)
(* Times.  A time.Time at midnight UTC, as year, month, day.                *)
(***************************************************************************)
Date(y, m, d) == [y |-> y, m |-> m, d |-> d]

Key(t) == t.y * 10000 + t.m * 100 + t.d

\* time.Time.Before / After
Before(a, b) == Key(a) < Key(b)
After(a, b) == Key(a) > Key(b)

(***************************************************************************)
(* Validation                                                              *)
(***************************************************************************)
MinNameLen == 2
MaxNameLen == 100
UserIDLen == 36

NoError == [kind |-> Nil, wrapped |-> FALSE]
Err(k) == [kind |-> k, wrapped |-> FALSE]

\* Subscription.Validate in the order a wrong implementation could check: price first
ValidatePriceFirst(v, s) ==
    LET s1 == IF v = "part_001"
              THEN [s EXCEPT !.ServiceName = TrimSpace(@), !.UserID = TrimSpace(@)]
              ELSE s
    IN  IF s1.Price <= 0
        THEN [sub |-> s1, err |-> Err("ErrInvalidPrice")]
        ELSE IF ByteLen(s1.ServiceName) < MinNameLen \/ ByteLen(s1.ServiceName) > MaxNameLen
        THEN [sub |-> s1, err |-> Err("ErrInvalidServiceName")]
        ELSE IF ByteLen(s1.UserID) # UserIDLen
        THEN [sub |-> s1, err |-> Err("ErrInvalidUserID")]
        ELSE IF s1.EndDate # None /\ Before(s1.EndDate[1], s1.StartDate)
        THEN [sub |-> s1, err |-> Err("ErrInvalidDateRange")]
        ELSE [sub |-> s1, err |-> NoError]

\* Subscription.Validate accepting a price of 0, and an end date only after the start
ValidateOffByOne(v, s) ==
    LET s1 == IF v = "part_001"
              THEN [s EXCEPT !.ServiceName = TrimSpace(@), !.UserID = TrimSpace(@)]
              ELSE s
    IN  IF ByteLen(s1.ServiceName) < MinNameLen \/ ByteLen(s1.ServiceName) > MaxNameLen
        THEN [sub |-> s1, err |-> Err("ErrInvalidServiceName")]
        ELSE IF s1.Price < 0
        THEN [sub |-> s1, err |-> Err("ErrInvalidPrice")]
        ELSE IF ByteLen(s1.UserID) # UserIDLen
        THEN [sub |-> s1, err |-> Err("ErrInvalidUserID")]
        ELSE IF s1.EndDate # None /\ ~After(s1.EndDate[1], s1.StartDate)
        THEN [sub |-> s1, err |-> Err("ErrInvalidDateRange")]
        ELSE [sub |-> s1, err |-> NoError]

\* Subscription.Validate of variant v on the instance s: the instance as the
\* method leaves it (part_001 assigns the trimmed strings back) and the error.
Validate(v, s) ==
    LET s1 == IF v = "part_001"
              THEN [s EXCEPT !.ServiceName = TrimSpace(@)]
              ELSE s
    IN  IF ByteLen(s1.ServiceName) < MinNameLen \/ ByteLen(s1.ServiceName) > MaxNameLen
        THEN [sub |-> s1, err |-> Err("ErrInvalidServiceName")]
        ELSE IF s1.Price <= 0
        THEN [sub |-> s1, err |-> Err("ErrInvalidPrice")]
        ELSE LET s2 == IF v = "part_001"
                       THEN [s1 EXCEPT !.UserID = TrimSpace(@)]
                       ELSE s1
             IN  IF ByteLen(s2.UserID) # UserIDLen
                 THEN [sub |-> s2, err |-> Err("ErrInvalidUserID")]
                 ELSE IF s2.EndDate # None /\ Before(s2.EndDate[1], s2.StartDate)
                 THEN [sub |-> s2, err |-> Err("ErrInvalidDateRange")]
                 ELSE [sub |-> s2, err |-> NoError]

\* The Subscription whose fields are assigned as given, without the constructor
Assigned(a) ==
    [ID |-> "", ServiceName |-> a.serviceName, Price |-> a.price,
     UserID |-> a.userID, StartDate |-> a.startDate, EndDate |-> a.endDate,
     CreatedAt |-> "zero", UpdatedAt |-> "zero"]

\* NewSubscription of variant v: model.go wraps the error of Validate
\* ("invalid subscription: %w"), part_001 returns it as it is.
NewSubscription(v, a) ==
    LET sub == [ID |-> "",
                ServiceName |-> TrimSpace(a.serviceName),
                Price |-> a.price,
                UserID |-> TrimSpace(a.userID),
                StartDate |-> a.startDate,
                EndDate |-> a.endDate,
                CreatedAt |-> "now",
                UpdatedAt |-> "now"]
        r == Validate(v, sub)
    IN  IF r.err # NoError
        THEN [sub |-> None,
              err |-> [kind |-> r.err.kind, wrapped |-> (v = "model.go")]]
        ELSE [sub |-> Some(r.sub), err |-> NoError]

(***************************************************************************)
(* The inputs of the validation: strings around the length limits, with    *)
(* and without surrounding white space, ASCII and non-ASCII letters.        *)
(***************************************************************************)
MaxPad == 1
Slack == 1
MaxPrice == 1

Rep(c, n) == [i \in 1..n |-> c]

\* lead spaces, nA ASCII letters (a space after the first when inner), nW wide
\* letters, trail spaces
Mk(lead, nA, nW, trail, inner) ==
    Rep("sp", lead)
        \o (IF inner /\ nA >= 2 THEN <<"a", "sp">> \o Rep("a", nA - 2) ELSE Rep("a", nA))
        \o Rep("ya", nW)
        \o Rep("sp", trail)

Near(n, k) == n - k <= Slack /\ k - n <= Slack

NameShapes ==
    {<<nA, nW>> \in (0..(MaxNameLen + Slack)) \X (0..1) :
        Near(nA + nW, MinNameLen) \/ Near(nA + 2 * nW, MaxNameLen)}
    \cup {<<0, nW>> : nW \in {0, 1, MaxNameLen \div 2, MaxNameLen \div 2 + 1}}

Pads == {<<0, 0>>, <<MaxPad, 0>>, <<0, MaxPad>>, <<MaxPad, MaxPad>>}

ServiceNames ==
    {Mk(p[1], sh[1], sh[2], p[2], FALSE) : p \in Pads, sh \in NameShapes}
    \cup {Mk(0, sh[1], sh[2], 0, TRUE) : sh \in NameShapes}

UserIDs ==
    {Mk(p, nA, 0, p, FALSE) :
        p \in {0, MaxPad}, nA \in (UserIDLen - 1)..(UserIDLen + 1)}
    \cup {Mk(0, UserIDLen - 2, 1, 0, FALSE)}

Prices == (-1)..MaxPrice

StartDates == {Date(2024, 2, 1)}
EndDates == {None} \cup {Some(Date(2024, m, 1)) : m \in 1..2}

ArgsSet ==
    [serviceName : ServiceNames, price : Prices, userID : UserIDs,
     startDate : StartDates, endDate : EndDates]

IdleCost ==
    /\ csub = None
    /\ window = None
    /\ costOut = None
    /\ activeOut = None

IdleRepo ==
    /\ repo = Nil
    /\ table = <<>>
    /\ call = None
    /\ fresh = <<>>

IdleQuery ==
    /\ qry = None
    /\ stmt = None

IdleHandler ==
    /\ hreq = None
    /\ resp = None

IdleConc == procs = <<>>

IdleMain ==
    /\ mainPc = "idle"
    /\ srvPc = "idle"
    /\ shutdown = <<>>
    /\ arrived = 0
    /\ sig = None
    /\ startErr = None
    /\ calls = 0

IdleRest ==
    /\ IdleQuery
    /\ IdleHandler
    /\ IdleConc
    /\ IdleMain

IdleValidation ==
    /\ variant = Nil
    /\ args = None
    /\ newOut = None
    /\ valOut = None

InitValidation ==
    /\ variant \in {"model.go", "part_001"}
    /\ \E a \in ArgsSet : args = Some(a)
    /\ newOut = None
    /\ valOut = None
    /\ IdleCost
    /\ IdleRepo
    /\ IdleRest

\* a caller constructs the subscription: NewSubscription(args...)
CallNewSubscription ==
    /\ newOut = None
    /\ newOut' = Some(NewSubscription(variant, args[1]))
    /\ UNCHANGED <<variant, args, valOut, costVars, repoVars, restVars>>

\* a caller assigns the fields directly and calls Validate() (the update path)
CallValidate ==
    /\ valOut = None
    /\ valOut' = Some(Validate(variant, Assigned(args[1])))
    /\ UNCHANGED <<variant, args, newOut, costVars, repoVars, restVars>>

NextValidation == CallNewSubscription \/ CallValidate

SpecValidation == InitValidation /\ [][NextValidation]_vars

(***************************************************************************)
(* Claims about construction and validation                                *)
(***************************************************************************)
NameLenIn(a) == ByteLen(TrimSpace(a.serviceName))
UserLenIn(a) == ByteLen(TrimSpace(a.userID))
EndBeforeStart(a) == a.endDate # None /\ Key(a.endDate[1]) < Key(a.startDate)
Accepted(r) == r.err = NoError /\ r.sub # None

\* C1: for every input whose service name is valid (trimmed len() in 2..100),
\* NewSubscription succeeds if and only if price > 0, the trimmed userID has
\* len() exactly 36, and endDate is absent or not earlier than startDate.
C1_ConstructAcceptance ==
    newOut # None =>
        LET a == args[1]
            r == newOut[1]
        IN  (NameLenIn(a) >= 2 /\ NameLenIn(a) <= 100) =>
                (Accepted(r) <=>
                    (a.price > 0 /\ UserLenIn(a) = 36 /\ ~EndBeforeStart(a)))

\* C1 witness: price 1, endDate equal to startDate and a userID of 36 bytes
\* inside surrounding white space are accepted.
C1_Witness ==
    /\ newOut # None
    /\ args[1].price = 1
    /\ args[1].endDate = Some(args[1].startDate)
    /\ Len(args[1].userID) = 38
    /\ UserLenIn(args[1]) = 36
    /\ Accepted(newOut[1])

\* C2 (as claimed): with the other fields valid, NewSubscription accepts if and
\* only if the trimmed serviceName has between 2 and 100 characters, whatever
\* the characters are.
C2_NameLengthInCharacters ==
    newOut # None =>
        LET a == args[1]
        IN  (a.price > 0 /\ UserLenIn(a) = 36 /\ ~EndBeforeStart(a)) =>
                (Accepted(newOut[1]) <=>
                    (Len(TrimSpace(a.serviceName)) >= 2
                        /\ Len(TrimSpace(a.serviceName)) <= 100))

\* The rule the claim says is reported: the first violated in the order
\* service name, price, user ID, date range.
FirstViolated(a) ==
    IF NameLenIn(a) < 2 \/ NameLenIn(a) > 100 THEN "ErrInvalidServiceName"
    ELSE IF a.price <= 0 THEN "ErrInvalidPrice"
    ELSE IF UserLenIn(a) # 36 THEN "ErrInvalidUserID"
    ELSE IF EndBeforeStart(a) THEN "ErrInvalidDateRange"
    ELSE Nil

\* C3: a rejected NewSubscription returns no entity and the error of the first
\* violated rule in the order service name, price, user ID, date range.
C3_FirstViolatedRuleReported ==
    newOut # None =>
        LET r == newOut[1]
        IN  /\ r.err.kind = FirstViolated(args[1])
            /\ (r.err # NoError => r.sub = None)

\* C3 witness: all four rules violated at once, the service name error reported.
C3_Witness ==
    /\ newOut # None
    /\ NameLenIn(args[1]) > 100
    /\ args[1].price <= 0
    /\ UserLenIn(args[1]) # 36
    /\ EndBeforeStart(args[1])
    /\ newOut[1].sub = None
    /\ newOut[1].err.kind = "ErrInvalidServiceName"

\* C4 (as claimed): Validate() on an instance whose fields were assigned
\* directly returns the same decision and the same error kind as
\* NewSubscription for the same field values.
C4_ValidateMatchesConstruct ==
    (newOut # None /\ valOut # None) =>
        valOut[1].err.kind = newOut[1].err.kind

(***************************************************************************)
(* Cost calculation (model.go)                                             *)
(***************************************************************************)
SentinelYear == 9999

IsLeap(y) == (y % 4 = 0 /\ y % 100 # 0) \/ y % 400 = 0

DaysIn(y, m) ==
    IF m = 2 THEN (IF IsLeap(y) THEN 29 ELSE 28)
    ELSE IF m \in {4, 6, 9, 11} THEN 30
    ELSE 31

\* time.Time.AddDate(0, 1, 0): the same day of the next month, normalised as
\* time.Date does it (October 31 + 1 month = November 31 = December 1)
AddMonth(t) ==
    LET y1 == IF t.m = 12 THEN t.y + 1 ELSE t.y
        m1 == IF t.m = 12 THEN 1 ELSE t.m + 1
    IN  IF t.d <= DaysIn(y1, m1)
        THEN Date(y1, m1, t.d)
        ELSE Date(IF m1 = 12 THEN y1 + 1 ELSE y1,
                  IF m1 = 12 THEN 1 ELSE m1 + 1,
                  t.d - DaysIn(y1, m1))

RECURSIVE monthsLoop(_, _, _)
monthsLoop(from, to, months) ==
    IF Before(from, to) THEN monthsLoop(AddMonth(from), to, months + 1) ELSE months

RECURSIVE monthsLoopInclusive(_, _, _)
monthsLoopInclusive(from, to, months) ==
    IF ~After(from, to) THEN monthsLoopInclusive(AddMonth(from), to, months + 1)
    ELSE months

\* monthsBetween whose loop runs while from is not after to
monthsBetweenInclusive(from, to) == monthsLoopInclusive(from, to, 0)

monthsBetween(from, to) == monthsLoop(from, to, 0)

maxTime(a, b) == IF After(a, b) THEN a ELSE b

minTime(a, b) == IF Before(a, b) THEN a ELSE b

\* the zero time for an absent end date
getEndDateOrZero(s) ==
    IF s.EndDate = None THEN Date(1, 1, 1) ELSE s.EndDate[1]

getEndDateOrMax(s) ==
    IF s.EndDate = None THEN Date(SentinelYear, 12, 31) ELSE s.EndDate[1]

\* IsActiveDuringPeriod as an overlap test
IsActiveOverlap(s, from, to) ==
    IF Before(to, from) THEN FALSE
    ELSE ~Before(to, s.StartDate) /\ (s.EndDate = None \/ ~After(from, s.EndDate[1]))

IsActiveDuringPeriod(s, from, to) ==
    IF Before(to, from) THEN FALSE
    ELSE ~Before(from, s.StartDate) /\ (s.EndDate = None \/ ~After(to, s.EndDate[1]))

CalculateCostForPeriod(s, from, to) ==
    IF ~IsActiveDuringPeriod(s, from, to) THEN 0
    ELSE s.Price * monthsBetween(maxTime(from, s.StartDate),
                                 minTime(to, getEndDateOrMax(s)))

(***************************************************************************)
(* The inputs of the cost calculation: subscriptions of 2024, windows of    *)
(* 2024 and windows around the far-future sentinel.                         *)
(***************************************************************************)
MaxMonth == 4

NearDates ==
    {t \in [y : {2024}, m : 1..MaxMonth, d : {1, 15, 31}] : t.d <= DaysIn(t.y, t.m)}

FarDates ==
    {Date(SentinelYear, 12, 1), Date(SentinelYear, 12, 31),
     Date(SentinelYear + 1, 1, 1), Date(SentinelYear + 1, 1, 31)}

CostSubs ==
    {s \in [Price : {1, 100}, StartDate : NearDates,
            EndDate : {None} \cup {Some(t) : t \in NearDates}] :
        s.EndDate = None \/ ~Before(s.EndDate[1], s.StartDate)}

Windows ==
    [from : NearDates, to : NearDates] \cup [from : FarDates, to : FarDates]

InitCost ==
    /\ \E s \in CostSubs : csub = Some(s)
    /\ \E w \in Windows : window = Some(w)
    /\ costOut = None
    /\ activeOut = None
    /\ IdleValidation
    /\ IdleRepo
    /\ IdleRest

CallCalculateCostForPeriod ==
    /\ costOut = None
    /\ costOut' = Some(CalculateCostForPeriod(csub[1], window[1].from, window[1].to))
    /\ UNCHANGED <<csub, window, activeOut, validationVars, repoVars, restVars>>

CallIsActiveDuringPeriod ==
    /\ activeOut = None
    /\ activeOut' = Some(IsActiveDuringPeriod(csub[1], window[1].from, window[1].to))
    /\ UNCHANGED <<csub, window, costOut, validationVars, repoVars, restVars>>

NextCost == CallCalculateCostForPeriod \/ CallIsActiveDuringPeriod

SpecCost == InitCost /\ [][NextCost]_vars

(***************************************************************************)
(* Claims about the cost calculation                                       *)
(***************************************************************************)
\* the window lies inside the active span of the subscription
Contained(s, w) ==
    /\ Key(w.from) >= Key(s.StartDate)
    /\ (s.EndDate = None \/ Key(w.to) <= Key(s.EndDate[1]))
    /\ Key(w.to) >= Key(w.from)

RECURSIVE StepMonths(_, _)
StepMonths(t, k) == IF k = 0 THEN t ELSE AddMonth(StepMonths(t, k - 1))

\* the number of one-month steps from lo until it is no longer before up
Steps(lo, up) ==
    CHOOSE k \in 0..(MaxMonth + 2) :
        /\ Key(StepMonths(lo, k)) >= Key(up)
        /\ \A j \in 0..(k - 1) : Key(StepMonths(lo, j)) < Key(up)

LowerBound(s, w) == IF Key(w.from) >= Key(s.StartDate) THEN w.from ELSE s.StartDate

UpperBound(s, w) ==
    LET e == IF s.EndDate = None THEN Date(9999, 12, 31) ELSE s.EndDate[1]
    IN  IF Key(w.to) <= Key(e) THEN w.to ELSE e

\* C5: CalculateCostForPeriod returns 0 when the window is not contained in the
\* active span, and price * n when it is, n being the number of one-month steps
\* from the lower bound until it is no longer before the upper bound.
C5_CostIsPriceTimesMonthSteps ==
    costOut # None =>
        LET s == csub[1]
            w == window[1]
        IN  costOut[1] = IF ~Contained(s, w) THEN 0
                         ELSE s.Price * Steps(LowerBound(s, w), UpperBound(s, w))

\* C5 witness: priced 100, starting January 2024, open-ended, queried for
\* January 2024 .. April 2024: 3 months, cost 300.
C5_Witness ==
    /\ costOut = Some(300)
    /\ csub = Some([Price |-> 100, StartDate |-> Date(2024, 1, 1), EndDate |-> None])
    /\ window = Some([from |-> Date(2024, 1, 1), to |-> Date(2024, 4, 1)])

\* C6: IsActiveDuringPeriod(from, to) is true if and only if from >= startDate,
\* endDate is absent or to <= endDate, and to >= from.
C6_ActiveIsContainment ==
    activeOut # None => (activeOut[1] <=> Contained(csub[1], window[1]))

\* C6 witness: a window starting after startDate and ending exactly on endDate
\* is reported active.
C6_Witness ==
    /\ activeOut = Some(TRUE)
    /\ csub[1].EndDate = Some(window[1].to)
    /\ Key(window[1].from) > Key(csub[1].StartDate)
    /\ Key(window[1].from) < Key(window[1].to)

\* C16: when IsActiveDuringPeriod(from, to) is true and to is not later than
\* the far-future sentinel, the larger of from and startDate is from and the
\* smaller of to and endDate (or the sentinel) is to, so that
\* CalculateCostForPeriod is price * the month steps from from to to, whatever
\* the subscription's own dates; a window with from = to costs 0.
C16_ActiveCostIgnoresOwnDates ==
    (/\ costOut # None
     /\ activeOut = Some(TRUE)
     /\ Key(window[1].to) <= Key(Date(9999, 12, 31))) =>
        LET s == csub[1]
            w == window[1]
        IN  /\ LowerBound(s, w) = w.from
            /\ UpperBound(s, w) = w.to
            /\ costOut[1] = s.Price * Steps(w.from, w.to)
            /\ w.from = w.to => costOut[1] = 0

\* C16 witness: an active window of one day, later than startDate and earlier
\* than endDate, costs 0; and so does none of the longer ones.
C16_Witness ==
    /\ activeOut = Some(TRUE)
    /\ costOut = Some(0)
    /\ window[1].from = window[1].to
    /\ Key(csub[1].StartDate) < Key(window[1].from)
    /\ csub[1].EndDate # None
    /\ Key(window[1].to) < Key(csub[1].EndDate[1])

(***************************************************************************)
(* The subscriptions table and the SubscriptionRepository                  *)
(* (repository.go, and the variant held in handler.go lines 57-319).       *)
(* Identifiers are numbered: 0 stands for the empty string.                *)
(***************************************************************************)
MaxIds == 2

Ids == 1..MaxIds
EmptyID == 0

NotFound == "subscription not found"

\* the errors a failed statement is returned as, by operation and variant
StoreError(r, op) ==
    IF r = "handler.go"
    THEN (IF op = "Create" THEN "failed to create subscription" ELSE "database error")
    ELSE CASE op = "Create" -> "failed to create subscription"
           [] op = "GetByID" -> "failed to get subscription"
           [] op = "Update" -> "failed to update subscription"
           [] op = "Delete" -> "failed to delete subscription"
           [] op = "List" -> "failed to list subscriptions"
           [] OTHER -> "failed to calculate monthly cost"

Columns == {"id", "service_name", "price", "user_id", "start_date", "end_date"}

Index(seq, x) == CHOOSE i \in 1..Len(seq) : seq[i] = x

\* INSERT INTO subscriptions (cols) VALUES ($1..$n): the row whose column
\* cols[i] holds vals[i]
RowOf(cols, vals) ==
    [c \in {cols[i] : i \in 1..Len(cols)} |-> vals[Index(cols, c)]]

\* nil pointer -> NULL, else the value pointed to (NULL and a present value
\* are both kept as an optional)
EndDateArg(sub) == IF sub.EndDate = None THEN None ELSE Some(sub.EndDate[1])

\* the statement arguments of Create with service_name and user_id exchanged
InsertArgsSwapped(sub) ==
    <<sub.UserID, sub.Price, sub.ServiceName, sub.StartDate, EndDateArg(sub)>>

\* the statement arguments of Create, in the order of the column list
\* service_name, price, user_id, start_date, end_date
InsertArgs(sub) ==
    <<sub.ServiceName, sub.Price, sub.UserID, sub.StartDate, EndDateArg(sub)>>

InsertCols == <<"service_name", "price", "user_id", "start_date", "end_date">>

\* the SET list of Update and its arguments $1..$5 ($6 is the id)
SetCols == <<"service_name", "price", "user_id", "start_date", "end_date">>

UpdateArgs(sub) ==
    <<sub.ServiceName, sub.Price, sub.UserID, sub.StartDate, EndDateArg(sub)>>

\* SELECT id, service_name, price, user_id, start_date, end_date ... Scan(&sub.ID,
\* &sub.ServiceName, &sub.Price, &sub.UserID, &sub.StartDate, &endDate):
\* the timestamps are not columns of the statement and stay zero
ScanRow(row) ==
    LET cols == <<"id", "service_name", "price", "user_id", "start_date", "end_date">>
        vals == [i \in 1..Len(cols) |-> row[cols[i]]]
    IN  [ID |-> vals[1], ServiceName |-> vals[2], Price |-> vals[3],
         UserID |-> vals[4], StartDate |-> vals[5], EndDate |-> vals[6],
         CreatedAt |-> "zero", UpdatedAt |-> "zero"]

NoSub ==
    [ID |-> EmptyID, ServiceName |-> "", Price |-> 0, UserID |-> "",
     StartDate |-> Date(1, 1, 1), EndDate |-> None,
     CreatedAt |-> "zero", UpdatedAt |-> "zero"]

NoFilters == <<>>

\* a returned call: op, the arguments (sub as passed, id, filters), the injected
\* failure of the store, and the results (err, the sub as the call left it,
\* the entity returned, the rows returned, the total returned)
Returned(op, arg, id, filters, fault, err, sub, out, rows, total) ==
    Some([op |-> op, arg |-> arg, id |-> id, filters |-> filters, fault |-> fault,
          err |-> err, sub |-> sub, out |-> out, rows |-> rows, total |-> total])

\* the fields of a subscription passed to Create that the caller chose
Passed(sub) ==
    [ServiceName |-> sub.ServiceName, Price |-> sub.Price, UserID |-> sub.UserID,
     StartDate |-> sub.StartDate, EndDate |-> sub.EndDate, CreatedAt |-> sub.CreatedAt]

Without(f, x) == [i \in DOMAIN f \ {x} |-> f[i]]

(*------------------------------ Create ---------------------------------*)
\* repository.go: the store generates the id (RETURNING id)
CreateA(sub, newID, fault) ==
    IF fault # "none"
    THEN /\ call' = Returned("Create", sub, EmptyID, NoFilters, fault,
                              StoreError(repo, "Create"), sub, None, {}, 0)
         /\ UNCHANGED <<table, fresh>>
    ELSE LET row == RowOf(InsertCols, InsertArgs(sub)) @@ ("id" :> newID)
         IN  /\ table' = (newID :> row) @@ table
             /\ fresh' = (newID :> Passed(sub)) @@ fresh
             /\ call' = Returned("Create", sub, EmptyID, NoFilters, fault,
                                  Nil, [sub EXCEPT !.ID = newID], None, {}, 0)

\* handler.go: the id is sub.ID, or uuid.New() when sub.ID is empty; a done
\* context returns before the query; an id already stored fails the INSERT
CreateB(sub, newID, fault) ==
    LET id == IF sub.ID = EmptyID THEN newID ELSE sub.ID
        sub1 == [sub EXCEPT !.ID = id]
    IN  IF fault = "ctx"
        THEN /\ call' = Returned("Create", sub, EmptyID, NoFilters, fault,
                                  "context error before query", sub1, None, {}, 0)
             /\ UNCHANGED <<table, fresh>>
        ELSE IF fault # "none" \/ id \in DOMAIN table
        THEN /\ call' = Returned("Create", sub, EmptyID, NoFilters, fault,
                                  StoreError(repo, "Create"), sub1, None, {}, 0)
             /\ UNCHANGED <<table, fresh>>
        ELSE LET row == RowOf(<<"id">> \o InsertCols, <<id>> \o InsertArgs(sub1))
             IN  /\ table' = (id :> row) @@ table
                 /\ fresh' = (id :> Passed(sub)) @@ fresh
                 /\ call' = Returned("Create", sub, EmptyID, NoFilters, fault,
                                      Nil, sub1, None, {}, 0)

(*------------------------------ GetByID --------------------------------*)
GetByID(id, fault) ==
    /\ call' =
          IF fault # "none"
          THEN Returned("GetByID", NoSub, id, NoFilters, fault,
                        StoreError(repo, "GetByID"), NoSub, None, {}, 0)
          ELSE IF id \notin DOMAIN table
          THEN Returned("GetByID", NoSub, id, NoFilters, fault, NotFound,
                        NoSub, None, {}, 0)
          ELSE Returned("GetByID", NoSub, id, NoFilters, fault, Nil,
                        NoSub, Some(ScanRow(table[id])), {}, 0)
    /\ UNCHANGED <<table, fresh>>

(*------------------------------ Update ---------------------------------*)
\* UPDATE ... SET service_name = $1, price = $2, user_id = $3, start_date = $4,
\* end_date = $5 WHERE id = $6
Update(sub, fault) ==
    IF fault # "none"
    THEN /\ call' = Returned("Update", sub, sub.ID, NoFilters, fault,
                              StoreError(repo, "Update"), sub, None, {}, 0)
         /\ UNCHANGED <<table, fresh>>
    ELSE IF sub.ID \notin DOMAIN table
    THEN /\ call' = Returned("Update", sub, sub.ID, NoFilters, fault, NotFound,
                              sub, None, {}, 0)
         /\ UNCHANGED <<table, fresh>>
    ELSE /\ table' = [table EXCEPT ![sub.ID] =
                         RowOf(SetCols, UpdateArgs(sub)) @@ ("id" :> sub.ID)]
         /\ fresh' = Without(fresh, sub.ID)
         /\ call' = Returned("Update", sub, sub.ID, NoFilters, fault, Nil,
                              sub, None, {}, 0)

(*------------------------------ Delete ---------------------------------*)
\* Delete that does not look at RowsAffected
DeleteIgnoringRowsAffected(id, fault) ==
    IF fault # "none"
    THEN /\ call' = Returned("Delete", NoSub, id, NoFilters, fault,
                              StoreError(repo, "Delete"), NoSub, None, {}, 0)
         /\ UNCHANGED <<table, fresh>>
    ELSE /\ table' = Without(table, id)
         /\ fresh' = Without(fresh, id)
         /\ call' = Returned("Delete", NoSub, id, NoFilters, fault, Nil,
                              NoSub, None, {}, 0)

Delete(id, fault) ==
    IF fault # "none"
    THEN /\ call' = Returned("Delete", NoSub, id, NoFilters, fault,
                              StoreError(repo, "Delete"), NoSub, None, {}, 0)
         /\ UNCHANGED <<table, fresh>>
    ELSE IF id \notin DOMAIN table
    THEN /\ call' = Returned("Delete", NoSub, id, NoFilters, fault, NotFound,
                              NoSub, None, {}, 0)
         /\ UNCHANGED <<table, fresh>>
    ELSE /\ table' = Without(table, id)
         /\ fresh' = Without(fresh, id)
         /\ call' = Returned("Delete", NoSub, id, NoFilters, fault, Nil,
                              NoSub, None, {}, 0)

(*----------------------- List / CalculateMonthlyCost --------------------*)
\* The text of a statement is a sequence of tokens: the base query, WHERE, AND
\* and the predicates "column = $n"; literal holds a value written into the
\* text itself (the builders write none).
Tok(kind, column, n) ==
    [kind |-> kind, column |-> column, placeholder |-> n, literal |-> None]

\* the base query of operation op in variant r
BaseQuery(r, op) ==
    IF op = "List"
    THEN Tok("base", "SELECT id, service_name, price, user_id, start_date, end_date FROM subscriptions", 0)
    ELSE IF r = "handler.go"
    THEN Tok("base", "SELECT SUM(price) FROM subscriptions", 0)
    ELSE Tok("base", "SELECT COALESCE(SUM(price), 0) FROM subscriptions", 0)

\* a placeholder numbered from 0
PlaceholderFromZero(qargs) == Len(qargs)

\* repository.go: the placeholder of the next condition, len(args)+1
Placeholder(qargs) == Len(qargs) + 1

\* repository.go: for field, value := range filters { conditions = append(...);
\* args = append(args, value) }, order being the order the map is iterated in
RECURSIVE RangeA(_, _, _, _, _)
RangeA(filters, order, j, conditions, qargs) ==
    IF j > Len(order) THEN [conditions |-> conditions, args |-> qargs]
    ELSE RangeA(filters, order, j + 1,
                Append(conditions, Tok("pred", order[j], Placeholder(qargs))),
                Append(qargs, filters[order[j]]))

\* strings.Join(conditions, " AND ")
RECURSIVE Join(_, _)
Join(conditions, j) ==
    IF j > Len(conditions) THEN <<>>
    ELSE (IF j > 1 THEN <<Tok("and", "", 0)>> ELSE <<>>)
            \o <<conditions[j]>> \o Join(conditions, j + 1)

\* handler.go: conditions is the text itself, i the number of the placeholder
RECURSIVE RangeB(_, _, _, _, _, _)
RangeB(filters, order, j, conditions, qargs, i) ==
    IF j > Len(order) THEN [conditions |-> conditions, args |-> qargs]
    ELSE RangeB(filters, order, j + 1,
                (IF conditions = <<>> THEN <<Tok("where", "", 0)>>
                 ELSE conditions \o <<Tok("and", "", 0)>>)
                    \o <<Tok("pred", order[j], i)>>,
                Append(qargs, filters[order[j]]),
                i + 1)

\* the statement List and CalculateMonthlyCost of variant r send for filters,
\* the map being iterated in the order given
BuildQuery(r, op, filters, order) ==
    IF r = "handler.go"
    THEN LET b == RangeB(filters, order, 1, <<>>, <<>>, 1)
         IN  [text |-> <<BaseQuery(r, op)>> \o b.conditions, args |-> b.args]
    ELSE LET a == RangeA(filters, order, 1, <<>>, <<>>)
         IN  [text |-> <<BaseQuery(r, op)>>
                        \o (IF Len(a.conditions) > 0
                            THEN <<Tok("where", "", 0)>> \o Join(a.conditions, 1)
                            ELSE <<>>),
              args |-> a.args]

\* what the store reads in the statement: the predicates of its text, each with
\* the argument its placeholder is bound to
WhereOf(st) ==
    {[column |-> st.text[j].column, value |-> st.args[st.text[j].placeholder]] :
        j \in {n \in 1..Len(st.text) : st.text[n].kind = "pred"}}

\* the orders a map with the keys K can be iterated in
Orders(K) ==
    {o \in [1..Cardinality(K) -> K] : \A a, b \in 1..Cardinality(K) : o[a] = o[b] => a = b}

\* a statement built with no WHERE clause at all
WhereDropped(filters) == {}

\* the WHERE clause of the statement built from the filters: one equality
\* predicate per entry, its value bound as the argument of its placeholder
\* (the same clause in both variants and for every order of iteration)
RECURSIVE AnOrder(_)
AnOrder(K) ==
    IF K = {} THEN <<>>
    ELSE LET k == CHOOSE x \in K : TRUE
         IN  <<k>> \o AnOrder(K \ {k})

Where(filters) ==
    WhereOf(BuildQuery("repository.go", "List", filters, AnOrder(DOMAIN filters)))

\* the statement names a column the table does not have
BadColumn(where) == \E p \in where : p.column \notin Columns

Selected(where) ==
    {i \in DOMAIN table : \A p \in where : table[i][p.column] = p.value}

\* fault "none": the query and every Scan succeed; "store": the query fails;
\* "scan": the Scan of row bad fails; "rows": the store fails while the rows
\* are read, after the rows in read were delivered: rows.Next() answers false
\* and the error stays in rows.Err(), which neither variant looks at.
\* The result records bad in its id field.
List(filters, fault, bad, read) ==
    LET where == Where(filters)
    IN  /\ call' =
              IF fault = "store" \/ BadColumn(where)
              THEN Returned("List", NoSub, bad, filters, fault,
                            StoreError(repo, "List"), NoSub, None, {}, 0)
              ELSE IF fault = "rows"
              THEN Returned("List", NoSub, bad, filters, fault, Nil, NoSub, None,
                            {ScanRow(table[i]) : i \in read \cap Selected(where)}, 0)
              ELSE IF fault = "scan" /\ bad \in Selected(where)
              THEN (IF repo = "handler.go"
                    THEN Returned("List", NoSub, bad, filters, fault,
                                  "database scan error", NoSub, None, {}, 0)
                    ELSE Returned("List", NoSub, bad, filters, fault, Nil,
                                  NoSub, None,
                                  {ScanRow(table[i]) : i \in Selected(where) \ {bad}}, 0))
              ELSE Returned("List", NoSub, bad, filters, fault, Nil, NoSub, None,
                            {ScanRow(table[i]) : i \in Selected(where)}, 0)
        /\ UNCHANGED <<table, fresh>>

RECURSIVE SumPrice(_)
SumPrice(ids) ==
    IF ids = {} THEN 0
    ELSE LET i == CHOOSE j \in ids : TRUE
         IN  table[i].price + SumPrice(ids \ {i})

\* SUM(price): NULL over no rows
SqlSum(ids) == IF ids = {} THEN None ELSE Some(SumPrice(ids))

\* COALESCE(x, d)
Coalesce(x, d) == IF x = None THEN d ELSE x[1]

\* repository.go selects COALESCE(SUM(price), 0), handler.go SUM(price); the
\* Scan into an int fails on NULL
CalculateMonthlyCost(filters, fault) ==
    LET where == Where(filters)
        sum == SqlSum(Selected(where))
    IN  /\ call' =
              IF fault # "none" \/ BadColumn(where)
              THEN Returned("CalculateMonthlyCost", NoSub, EmptyID, filters, fault,
                            StoreError(repo, "CalculateMonthlyCost"), NoSub, None, {}, 0)
              ELSE IF repo = "handler.go"
              THEN (IF sum = None
                    THEN Returned("CalculateMonthlyCost", NoSub, EmptyID, filters, fault,
                                  "database error", NoSub, None, {}, 0)
                    ELSE Returned("CalculateMonthlyCost", NoSub, EmptyID, filters, fault,
                                  Nil, NoSub, None, {}, sum[1]))
              ELSE Returned("CalculateMonthlyCost", NoSub, EmptyID, filters, fault,
                            Nil, NoSub, None, {}, Coalesce(sum, 0))
        /\ UNCHANGED <<table, fresh>>

(***************************************************************************)
(* The callers of the repository                                           *)
(***************************************************************************)
Services == {"netflix", "spotify"}
Users == {"u1", "u2"}
Plans ==
    {[Price |-> 1, EndDate |-> None],
     [Price |-> 2, EndDate |-> Some(Date(2025, 1, 1))]}

RepoSubs ==
    {[ID |-> i, ServiceName |-> sv, Price |-> pl.Price, UserID |-> u,
      StartDate |-> Date(2024, 1, 1), EndDate |-> pl.EndDate,
      CreatedAt |-> "now", UpdatedAt |-> "now"] :
        i \in {EmptyID} \cup Ids, sv \in Services, u \in Users, pl \in Plans}

Opt(S) == {None} \cup {Some(x) : x \in S}

Entry(k, v) == IF v = None THEN <<>> ELSE k :> v[1]

\* the filter mappings the HTTP layer builds: any of user_id, service_name and
\* start_date_from (a parsed month-year date)
FilterSets ==
    {Entry("user_id", u) @@ Entry("service_name", sv) @@ Entry("start_date_from", d) :
        u \in Opt(Users), sv \in Opt(Services), d \in Opt({Date(2024, 1, 1)})}

InitRepo ==
    /\ repo \in {"repository.go", "handler.go"}
    /\ table = <<>>
    /\ call = None
    /\ fresh = <<>>
    /\ IdleValidation
    /\ IdleCost
    /\ IdleRest

DoCreate ==
    /\ call = None
    /\ \E sub \in RepoSubs :
         \/ /\ repo = "repository.go"
            /\ \E newID \in Ids \ DOMAIN table, fault \in {"none", "store"} :
                 CreateA(sub, newID, fault)
         \/ /\ repo = "handler.go"
            /\ \E newID \in IF sub.ID = EmptyID THEN Ids \ DOMAIN table ELSE {sub.ID},
                  fault \in {"none", "store", "ctx"} :
                 CreateB(sub, newID, fault)
    /\ UNCHANGED <<repo, validationVars, costVars, restVars>>

DoGetByID ==
    /\ call = None
    /\ \E id \in Ids, fault \in {"none", "store"} : GetByID(id, fault)
    /\ UNCHANGED <<repo, validationVars, costVars, restVars>>

DoUpdate ==
    /\ call = None
    /\ \E sub \in RepoSubs, fault \in {"none", "store"} : Update(sub, fault)
    /\ UNCHANGED <<repo, validationVars, costVars, restVars>>

DoDelete ==
    /\ call = None
    /\ \E id \in Ids, fault \in {"none", "store"} : Delete(id, fault)
    /\ UNCHANGED <<repo, validationVars, costVars, restVars>>

DoList ==
    /\ call = None
    /\ \E filters \in FilterSets :
         \/ \E fault \in {"none", "store"} : List(filters, fault, EmptyID, {})
         \/ \E bad \in DOMAIN table : List(filters, "scan", bad, {})
         \/ \E read \in SUBSET DOMAIN table : List(filters, "rows", EmptyID, read)
    /\ UNCHANGED <<repo, validationVars, costVars, restVars>>

DoCalculateMonthlyCost ==
    /\ call = None
    /\ \E filters \in FilterSets, fault \in {"none", "store"} :
         CalculateMonthlyCost(filters, fault)
    /\ UNCHANGED <<repo, validationVars, costVars, restVars>>

\* the caller has taken the results of the call
Return ==
    /\ call # None
    /\ call' = None
    /\ UNCHANGED <<repo, table, fresh, validationVars, costVars, restVars>>

NextRepo ==
    \/ DoCreate
    \/ DoGetByID
    \/ DoUpdate
    \/ DoDelete
    \/ DoList
    \/ DoCalculateMonthlyCost
    \/ Return

SpecRepo == InitRepo /\ [][NextRepo]_vars

(***************************************************************************)
(* Claims about the repository                                             *)
(***************************************************************************)
\* the stored rows a filter mapping selects: equal to it on every filtered column
MatchingRows(filters) ==
    {i \in DOMAIN table : \A k \in DOMAIN filters : table[i][k] = filters[k]}

RECURSIVE TotalPrice(_)
TotalPrice(ids) ==
    IF ids = {} THEN 0
    ELSE LET i == CHOOSE j \in ids : TRUE
         IN  table[i].price + TotalPrice(ids \ {i})

\* the entity a stored row stands for
EntityOf(row) ==
    [ID |-> row.id, ServiceName |-> row.service_name, Price |-> row.price,
     UserID |-> row.user_id, StartDate |-> row.start_date, EndDate |-> row.end_date,
     CreatedAt |-> "zero", UpdatedAt |-> "zero"]

\* C7 (as claimed): with the store answering, CalculateMonthlyCost returns no
\* error and the sum of price over exactly the rows matching all filters, 0 when
\* none matches, in both repository variants.
C7_AggregateIsSumOrZero ==
    (/\ call # None
     /\ call[1].op = "CalculateMonthlyCost"
     /\ call[1].fault = "none"
     /\ DOMAIN call[1].filters \subseteq Columns) =>
        /\ call[1].err = Nil
        /\ call[1].total = TotalPrice(MatchingRows(call[1].filters))

\* C8: with the store answering, List with an empty filter mapping returns every
\* stored row (none, and no error, when none is stored), and List with a filter
\* on user_id returns exactly the stored rows of that user.
C8_ListReturnsMatchingRows ==
    (/\ call # None
     /\ call[1].op = "List"
     /\ call[1].fault = "none"
     /\ DOMAIN call[1].filters \subseteq {"user_id"}) =>
        /\ call[1].err = Nil
        /\ call[1].rows =
              {EntityOf(table[i]) :
                 i \in {j \in DOMAIN table :
                           \/ call[1].filters = <<>>
                           \/ table[j].user_id = call[1].filters["user_id"]}}

\* C8 witness: with rows of two users stored, one of them changed by Update,
\* List filtered on user_id returned some but not all rows.
C8_Witness ==
    /\ call # None
    /\ call[1].op = "List"
    /\ call[1].err = Nil
    /\ DOMAIN call[1].filters = {"user_id"}
    /\ call[1].rows # {}
    /\ Cardinality(call[1].rows) < Cardinality(DOMAIN table)
    /\ DOMAIN fresh # DOMAIN table

SameFields(a, b) ==
    /\ a.ServiceName = b.ServiceName
    /\ a.Price = b.Price
    /\ a.UserID = b.UserID
    /\ a.StartDate = b.StartDate
    /\ a.EndDate = b.EndDate

\* C9: a successful Create leaves the subscription with a non-empty identifier,
\* and GetByID on the identifier of a created subscription (not updated or
\* deleted since) returns an entity equal to the one passed to Create on
\* serviceName, price, userID, startDate and endDate.
C9_CreateThenGetRoundTrip ==
    call # None =>
        /\ (call[1].op = "Create" /\ call[1].err = Nil) =>
               /\ call[1].sub.ID # EmptyID
               /\ call[1].sub.ID \in DOMAIN table
        /\ (call[1].op = "GetByID" /\ call[1].fault = "none"
                /\ call[1].id \in DOMAIN fresh) =>
               /\ call[1].err = Nil
               /\ call[1].out # None
               /\ SameFields(call[1].out[1], fresh[call[1].id])

\* C9 witness: GetByID returned a subscription created without identifier and
\* without end date: the end date is still absent, the identifier and the
\* timestamps differ from the input.
C9_Witness ==
    /\ call # None
    /\ call[1].op = "GetByID"
    /\ call[1].id \in DOMAIN fresh
    /\ call[1].out # None
    /\ call[1].out[1].EndDate = None
    /\ call[1].id \in DOMAIN table
    /\ call[1].out[1].ID # EmptyID
    /\ call[1].out[1].CreatedAt # fresh[call[1].id].CreatedAt

\* C10: with the store answering, GetByID(id), Update(sub with that id) and
\* Delete(id) succeed if and only if a row with that id is stored when they are
\* called; when none is stored they return the not-found error and leave the
\* table unchanged; a failure of the store is returned as another error.
C10_NotFoundIffNotStored ==
    [][(call = None /\ call' # None
            /\ call'[1].op \in {"GetByID", "Update", "Delete"}) =>
          LET c == call'[1]
          IN  /\ c.fault = "none" =>
                    /\ (c.err = Nil) <=> (c.id \in DOMAIN table)
                    /\ c.id \notin DOMAIN table => (c.err = NotFound /\ table' = table)
              /\ c.fault # "none" => (c.err \notin {Nil, NotFound} /\ table' = table)
      ]_vars

\* C10 witness: Delete of an identifier that is not stored, while another row
\* is, returned the not-found error.
C10_Witness ==
    /\ call # None
    /\ call[1].op = "Delete"
    /\ call[1].fault = "none"
    /\ call[1].err = NotFound
    /\ call[1].id \notin DOMAIN table
    /\ table # <<>>

\* C12 (as claimed): every failure of the store during an operation is returned
\* as an error, except that List of repository.go skips a row whose Scan fails
\* and returns the other rows with no error; List of handler.go returns an
\* error and no rows when a Scan fails.
C12_StoreFailuresReturned ==
    (call # None /\ call[1].fault # "none") =>
        LET c == call[1]
            surfaced == /\ c.err \notin {Nil, NotFound}
                        /\ c.rows = {}
                        /\ c.out = None
        IN  IF c.op = "List" /\ c.fault = "scan" /\ DOMAIN c.filters \subseteq Columns
            THEN c.id \in MatchingRows(c.filters) =>
                    IF repo = "repository.go"
                    THEN /\ c.err = Nil
                         /\ c.rows = {EntityOf(table[i]) :
                                        i \in MatchingRows(c.filters) \ {c.id}}
                    ELSE surfaced
            ELSE surfaced

(***************************************************************************)
(* The statement of List and CalculateMonthlyCost, for every filter map    *)
(* and every order of iteration.                                           *)
(***************************************************************************)
\* the filter mappings the HTTP layer can pass: any of its four keys
QueryFilters ==
    {Entry("user_id", u) @@ Entry("service_name", sv)
        @@ Entry("start_date_from", f) @@ Entry("start_date_to", t) :
        u \in Opt(Users), sv \in Opt(Services),
        f \in Opt({Date(2024, 1, 1)}), t \in Opt({Date(2024, 12, 1)})}

InitQuery ==
    /\ qry \in {Some([repo |-> r, op |-> op, filters |-> f, order |-> o]) :
                    r \in {"repository.go", "handler.go"},
                    op \in {"List", "CalculateMonthlyCost"},
                    f \in QueryFilters,
                    o \in UNION {Orders(DOMAIN g) : g \in QueryFilters}}
    /\ qry[1].order \in Orders(DOMAIN qry[1].filters)
    /\ stmt = None
    /\ IdleValidation
    /\ IdleCost
    /\ IdleRepo
    /\ IdleHandler
    /\ IdleConc
    /\ IdleMain

BuildStatement ==
    /\ stmt = None
    /\ stmt' = Some(BuildQuery(qry[1].repo, qry[1].op, qry[1].filters, qry[1].order))
    /\ UNCHANGED <<qry, validationVars, costVars, repoVars,
                   handlerVars, concVars, mainVars>>

NextQuery == BuildStatement

SpecQuery == InitQuery /\ [][NextQuery]_vars

\* the positions of the predicates in a statement's text
Preds(text) == {n \in 1..Len(text) : text[n].kind = "pred"}

\* C11: the statement built for a filter map with k entries is the base query
\* alone when k = 0, and otherwise the base query, WHERE and exactly k
\* equality predicates joined by AND; the placeholders $1..$k are each used
\* once; the predicate naming column f carries the placeholder whose positional
\* argument is filters[f], whatever the order of iteration; no filter value is
\* written into the text.
C11_StatementShape ==
    stmt # None =>
        LET f == qry[1].filters
            k == Cardinality(DOMAIN f)
            text == stmt[1].text
        IN  /\ text[1] = BaseQuery(qry[1].repo, qry[1].op)
            /\ Len(text) = (IF k = 0 THEN 1 ELSE 2 * k + 1)
            /\ k > 0 => text[2].kind = "where"
            /\ \A j \in 1..k : text[2 * j + 1].kind = "pred"
            /\ \A j \in 1..(k - 1) : text[2 * j + 2].kind = "and"
            /\ \A n \in 1..k : Cardinality({j \in Preds(text) : text[j].placeholder = n}) = 1
            /\ \A c \in DOMAIN f : Cardinality({j \in Preds(text) : text[j].column = c}) = 1
            /\ Len(stmt[1].args) = k
            /\ \A j \in Preds(text) : stmt[1].args[text[j].placeholder] = f[text[j].column]
            /\ \A n \in 1..Len(text) : text[n].literal = None

\* C11 witness: a statement built for four filters, iterated with the user_id
\* entry last, so that user_id carries $4.
C11_Witness ==
    /\ stmt # None
    /\ Cardinality(DOMAIN qry[1].filters) = 4
    /\ qry[1].order[4] = "user_id"
    /\ stmt[1].text[9] = Tok("pred", "user_id", 4)
    /\ stmt[1].args[4] = qry[1].filters["user_id"]

(***************************************************************************)
(* The HTTP handlers of the subscriptions (handler.go lines 1-55), served  *)
(* by gin: a handler that writes nothing leaves gin's default response,    *)
(* status 200 with an empty body.                                          *)
(***************************************************************************)
\* the routes registered under /api/v1/subscriptions
RegisterRoutes ==
    {[method |-> "POST", path |-> "", handler |-> "Create"],
     [method |-> "GET", path |-> "", handler |-> "List"],
     [method |-> "GET", path |-> "/:id", handler |-> "Get"],
     [method |-> "PUT", path |-> "/:id", handler |-> "Update"],
     [method |-> "DELETE", path |-> "/:id", handler |-> "Delete"]}

\* c.JSON(code, obj)
JSON(code) == [status |-> code, body |-> "json"]

\* nothing written: gin answers 200 with no body
NothingWritten == [status |-> 200, body |-> "empty"]

\* the request bodies: a valid subscription and ones with a short name, a
\* price that is not positive, a short user id or an end before the start
Payloads ==
    [serviceName : {Mk(0, MinNameLen, 0, 0, FALSE), Mk(0, MinNameLen - 1, 0, 0, FALSE)},
     price : {-1, 1},
     userID : {Mk(0, UserIDLen, 0, 0, FALSE), Mk(0, UserIDLen - 1, 0, 0, FALSE)},
     startDate : StartDates,
     endDate : EndDates]

\* a request to the route of a handler; store tells whether the store answers
\* while it is served
Request(handler, id, body, store) ==
    LET route == CHOOSE r \in RegisterRoutes : r.handler = handler
    IN  [method |-> route.method, path |-> route.path, handler |-> handler,
         id |-> id, body |-> body, store |-> store]

StoredRow ==
    [id |-> 1, service_name |-> "netflix", price |-> 1, user_id |-> "u1",
     start_date |-> Date(2024, 1, 1), end_date |-> None]

InitHandler ==
    /\ hreq = None
    /\ resp = None
    /\ repo \in {"repository.go", "handler.go"}
    /\ table \in {<<>>, 1 :> StoredRow}
    /\ call = None
    /\ fresh = <<>>
    /\ IdleValidation
    /\ IdleCost
    /\ IdleQuery
    /\ IdleConc
    /\ IdleMain

Stores == {"up", "down"}

\* func (h *SubscriptionHandler) Create
HandlerCreate ==
    /\ hreq = None
    /\ \E body \in Payloads, store \in Stores :
         hreq' = Some(Request("Create", EmptyID, Some(body), store))
    /\ resp' = Some(JSON(201))
    /\ UNCHANGED <<validationVars, costVars, repoVars, queryVars, concVars, mainVars>>

\* func (h *SubscriptionHandler) Get
HandlerGet ==
    /\ hreq = None
    /\ \E id \in Ids, store \in Stores : hreq' = Some(Request("Get", id, None, store))
    /\ resp' = Some(NothingWritten)
    /\ UNCHANGED <<validationVars, costVars, repoVars, queryVars, concVars, mainVars>>

\* func (h *SubscriptionHandler) Update
HandlerUpdate ==
    /\ hreq = None
    /\ \E id \in Ids, body \in Payloads, store \in Stores :
         hreq' = Some(Request("Update", id, Some(body), store))
    /\ resp' = Some(NothingWritten)
    /\ UNCHANGED <<validationVars, costVars, repoVars, queryVars, concVars, mainVars>>

\* func (h *SubscriptionHandler) Delete
HandlerDelete ==
    /\ hreq = None
    /\ \E id \in Ids, store \in Stores : hreq' = Some(Request("Delete", id, None, store))
    /\ resp' = Some(NothingWritten)
    /\ UNCHANGED <<validationVars, costVars, repoVars, queryVars, concVars, mainVars>>

\* func (h *SubscriptionHandler) List
HandlerList ==
    /\ hreq = None
    /\ \E store \in Stores : hreq' = Some(Request("List", EmptyID, None, store))
    /\ resp' = Some(NothingWritten)
    /\ UNCHANGED <<validationVars, costVars, repoVars, queryVars, concVars, mainVars>>

\* the response has been sent; the next request can be served
Responded ==
    /\ hreq # None
    /\ hreq' = None
    /\ resp' = None
    /\ UNCHANGED <<validationVars, costVars, repoVars, queryVars, concVars, mainVars>>

NextHandler ==
    \/ HandlerCreate
    \/ HandlerGet
    \/ HandlerUpdate
    \/ HandlerDelete
    \/ HandlerList
    \/ Responded

SpecHandler == InitHandler /\ [][NextHandler]_vars

\* a request body that passes validation
ValidBody(b) ==
    /\ NameLenIn(b) >= 2 /\ NameLenIn(b) <= 100
    /\ b.price > 0
    /\ UserLenIn(b) = 36
    /\ ~EndBeforeStart(b)

\* the table holds a row with the fields of the body
StoredBody(b) ==
    \E i \in DOMAIN table : table[i].price = b.price /\ table[i].start_date = b.startDate

\* C13 (as claimed): a validation error gives 400, a missing identifier 404, a
\* failure of the store 500, a successful create 201, a successful delete 204
\* with an empty body and every other success 200 with a JSON body; POST
\* answers 201 only when the subscription was validated and stored.
C13_StatusMapping ==
    resp # None =>
        LET r == hreq[1]
            a == resp[1]
            valid == ValidBody(r.body[1])
            found == r.id \in DOMAIN table
        IN  CASE r.handler = "Create" ->
                    /\ a.status = (IF ~valid THEN 400 ELSE IF r.store = "down" THEN 500 ELSE 201)
                    /\ a.status = 201 => StoredBody(r.body[1])
              [] r.handler = "Update" ->
                    a = (IF ~valid THEN JSON(400) ELSE IF r.store = "down" THEN JSON(500)
                         ELSE IF ~found THEN JSON(404) ELSE JSON(200))
              [] r.handler = "Get" ->
                    a = (IF r.store = "down" THEN JSON(500)
                         ELSE IF ~found THEN JSON(404) ELSE JSON(200))
              [] r.handler = "Delete" ->
                    a = (IF r.store = "down" THEN JSON(500)
                         ELSE IF ~found THEN JSON(404) ELSE [status |-> 204, body |-> "empty"])
              [] OTHER ->
                    a = (IF r.store = "down" THEN JSON(500) ELSE JSON(200))

(***************************************************************************)
(* Concurrent callers of Delete.  A call sends one DELETE statement, which *)
(* the store executes atomically, and then looks at the rows it affected.  *)
(***************************************************************************)
MaxProcs == 3

Procs == 1..MaxProcs

NotCalled ==
    [pc |-> "idle", id |-> EmptyID, stored |-> FALSE, failed |-> FALSE,
     affected |-> 0, err |-> Nil]

\* every statement affects a row
RowsAffectedAlways(id) == 1

\* result.RowsAffected() of DELETE FROM subscriptions WHERE id = $1
RowsAffected(id) == IF id \in DOMAIN table THEN 1 ELSE 0

InitConc ==
    /\ procs = [p \in Procs |-> NotCalled]
    /\ repo \in {"repository.go", "handler.go"}
    /\ table \in {[i \in S |-> [StoredRow EXCEPT !.id = i]] : S \in SUBSET Ids}
    /\ call = None
    /\ fresh = <<>>
    /\ IdleValidation
    /\ IdleCost
    /\ IdleQuery
    /\ IdleHandler
    /\ IdleMain

\* a caller enters Delete(ctx, id); stored records whether the row is stored
\* at that moment
CallDelete(p) ==
    /\ procs[p].pc = "idle"
    /\ \E id \in Ids :
         procs' = [procs EXCEPT ![p] = [NotCalled EXCEPT !.pc = "exec", !.id = id,
                                                         !.stored = id \in DOMAIN table]]
    /\ UNCHANGED <<table, repo, call, fresh>>
    /\ UNCHANGED <<validationVars, costVars, queryVars, handlerVars, mainVars>>

\* result, err := s.db.Exec(ctx, query, id): the statement runs in one step,
\* or the store fails and nothing is deleted
ExecDelete(p) ==
    /\ procs[p].pc = "exec"
    /\ \/ /\ procs' = [procs EXCEPT ![p].pc = "check",
                                      ![p].affected = RowsAffected(procs[p].id)]
          /\ table' = Without(table, procs[p].id)
       \/ /\ procs' = [procs EXCEPT ![p].pc = "check", ![p].failed = TRUE]
          /\ UNCHANGED table
    /\ UNCHANGED <<repo, call, fresh>>
    /\ UNCHANGED <<validationVars, costVars, queryVars, handlerVars, mainVars>>

\* if err != nil ...; if result.RowsAffected() == 0 ...; return nil
ReturnDelete(p) ==
    /\ procs[p].pc = "check"
    /\ procs' = [procs EXCEPT ![p].pc = "done",
                              ![p].err = IF procs[p].failed THEN StoreError(repo, "Delete")
                                         ELSE IF procs[p].affected = 0 THEN NotFound
                                         ELSE Nil]
    /\ UNCHANGED <<table, repo, call, fresh>>
    /\ UNCHANGED <<validationVars, costVars, queryVars, handlerVars, mainVars>>

NextConc ==
    \/ \E p \in Procs : CallDelete(p)
    \/ \E p \in Procs : ExecDelete(p)
    \/ \E p \in Procs : ReturnDelete(p)

SpecConc == InitConc /\ [][NextConc]_vars

\* the callers that entered Delete(id)
Deleters(id) == {p \in Procs : procs[p].pc # "idle" /\ procs[p].id = id}

Succeeded(id) == {p \in Deleters(id) : procs[p].pc = "done" /\ procs[p].err = Nil}

\* C14: of the Delete(id) calls that run against a stored id, never two return
\* success; once all of them have returned, the store having answered each,
\* exactly one returned success, every other returned the not-found error, and
\* the row is absent.
C14_ConcurrentDeleteOnce ==
    \A id \in Ids :
        /\ Cardinality(Succeeded(id)) <= 1
        /\ (/\ \E p \in Deleters(id) : procs[p].stored
            /\ \A p \in Deleters(id) : procs[p].pc = "done" /\ ~procs[p].failed) =>
                /\ Cardinality(Succeeded(id)) = 1
                /\ \A p \in Deleters(id) \ Succeeded(id) : procs[p].err = NotFound
                /\ id \notin DOMAIN table

\* C14 witness: three callers entered Delete(1) while row 1 was stored, all
\* returned, one with success and two with the not-found error.
C14_Witness ==
    /\ \A p \in Procs : procs[p].pc = "done" /\ procs[p].id = 1 /\ procs[p].stored
    /\ Cardinality(Succeeded(1)) = 1
    /\ Cardinality({p \in Procs : procs[p].err = NotFound}) = MaxProcs - 1
    /\ 1 \notin DOMAIN table

(***************************************************************************)
(* main from signal.Notify on (part_002 lines 127-151, part_003 lines      *)
(* 64-88): the goroutine that runs the HTTP server, the signals, and the   *)
(* graceful shutdown.                                                      *)
(***************************************************************************)
MaxSignals == 2

\* shutdown := make(chan os.Signal, 1)
ChanCap == 1

Signals == {"SIGINT", "SIGTERM"}

ErrServerClosed == "http.ErrServerClosed"

\* the goroutine never sends
ShouldSendNever(err) == FALSE

\* err != nil && !errors.Is(err, http.ErrServerClosed)
ShouldSend(err) == err # Nil /\ err # ErrServerClosed

InitMain ==
    /\ mainPc = "go"
    /\ srvPc = "idle"
    /\ shutdown = <<>>
    /\ arrived = 0
    /\ sig = None
    /\ startErr = None
    /\ calls = 0
    /\ IdleValidation
    /\ IdleCost
    /\ IdleRepo
    /\ IdleQuery
    /\ IdleHandler
    /\ IdleConc

Others == <<validationVars, costVars, repoVars, queryVars, handlerVars, concVars>>

\* the process runs until main returns
Running == mainPc # "done"

\* a termination signal arrives: the runtime passes it to the channel without
\* blocking, and drops it when the channel is full
SignalArrives ==
    /\ Running
    /\ arrived < MaxSignals
    /\ arrived' = arrived + 1
    /\ \E s \in Signals :
         shutdown' = IF Len(shutdown) < ChanCap THEN Append(shutdown, s) ELSE shutdown
    /\ UNCHANGED <<mainPc, srvPc, sig, startErr, calls, Others>>

\* go func() { ... }()
Go ==
    /\ mainPc = "go"
    /\ mainPc' = "receive"
    /\ srvPc' = "start"
    /\ UNCHANGED <<shutdown, arrived, sig, startErr, calls, Others>>

\* apiServer.Start(":8080") returns: ListenAndServe fails to listen or to
\* serve, or, once Shutdown was called, answers ErrServerClosed
StartReturns ==
    /\ Running
    /\ srvPc = "start"
    /\ \E err \in {"listen error"} \cup (IF calls > 0 THEN {ErrServerClosed} ELSE {}) :
         startErr' = Some(err)
    /\ srvPc' = "check"
    /\ UNCHANGED <<mainPc, shutdown, arrived, sig, calls, Others>>

\* if err := ...; err != nil && !errors.Is(err, http.ErrServerClosed)
CheckErr ==
    /\ Running
    /\ srvPc = "check"
    /\ srvPc' = IF ShouldSend(startErr[1]) THEN "send" ELSE "returned"
    /\ UNCHANGED <<mainPc, shutdown, arrived, sig, startErr, calls, Others>>

\* shutdown <- syscall.SIGTERM: blocks while the channel is full
Send ==
    /\ Running
    /\ srvPc = "send"
    /\ Len(shutdown) < ChanCap
    /\ shutdown' = Append(shutdown, "SIGTERM")
    /\ srvPc' = "returned"
    /\ UNCHANGED <<mainPc, arrived, sig, startErr, calls, Others>>

\* sig := <-shutdown: blocks while the channel is empty
Receive ==
    /\ mainPc = "receive"
    /\ Len(shutdown) > 0
    /\ sig' = Some(Head(shutdown))
    /\ shutdown' = Tail(shutdown)
    /\ mainPc' = "shutdown"
    /\ UNCHANGED <<srvPc, arrived, startErr, calls, Others>>

\* apiServer.Shutdown(shutdownCtx): returns, at the latest when the context
\* times out after 5 seconds
Shutdown ==
    /\ mainPc = "shutdown"
    /\ calls' = calls + 1
    /\ mainPc' = "exit"
    /\ UNCHANGED <<srvPc, shutdown, arrived, sig, startErr, Others>>

\* main returns and the process ends
Exit ==
    /\ mainPc = "exit"
    /\ mainPc' = "done"
    /\ UNCHANGED <<srvPc, shutdown, arrived, sig, startErr, calls, Others>>

NextMain ==
    \/ SignalArrives
    \/ Go
    \/ StartReturns
    \/ CheckErr
    \/ Send
    \/ Receive
    \/ Shutdown
    \/ Exit

SpecMain == InitMain /\ [][NextMain]_vars

\* main and the goroutine take their steps when they can; nothing is assumed
\* of the signals or of the server failing
SpecMainFair ==
    /\ SpecMain
    /\ WF_vars(Go)
    /\ WF_vars(Receive)
    /\ WF_vars(Shutdown)
    /\ WF_vars(Exit)
    /\ WF_vars(CheckErr)
    /\ WF_vars(Send)

\* a termination signal arrived, or the server failed with an error other
\* than ErrServerClosed
Cause ==
    \/ arrived > 0
    \/ startErr # None /\ startErr[1] # ErrServerClosed

\* C15: Server.Shutdown is not called before a termination signal arrived or
\* the server failed with an error other than ErrServerClosed; once either
\* happened, main eventually has called Shutdown exactly once and returned,
\* and Shutdown is never called a second time.
C15_ShutdownOnceAfterCause ==
    /\ [](calls > 0 => Cause)
    /\ [](calls <= 1)
    /\ [](mainPc = "done" => calls = 1)
    /\ (Cause ~> (mainPc = "done" /\ calls = 1))

\* C15 witness: the server failed while a signal filled the channel, the
\* goroutine's send went through after main had received the signal, and main
\* returned having called Shutdown once.
C15_Witness ==
    /\ mainPc = "done"
    /\ calls = 1
    /\ sig = Some("SIGINT")
    /\ srvPc = "returned"
    /\ startErr = Some("listen error")
    /\ shutdown = <<"SIGTERM">>

====
